---- MODULE Spec2Model ----
(***************************************************************************)
(* Model of auto-git: the change scanner (internal/git/scanner.go), the    *)
(* reply normalizer (internal/prompt/builder.go), the commit sequence      *)
(* (internal/git/commit.go), the default action (cmd/root.go) with the     *)
(* provider clients and the UI it calls, and the spinner                   *)
(* (internal/ui/spinner.go).                                               *)
(*                                                                         *)
(* A Go string is modelled as a sequence of Unicode code points, so that   *)
(* strings.ToLower, strings.Fields, strings.TrimSpace ... are computed     *)
(* character by character as the Go library computes them.                 *)
(***************************************************************************)
EXTENDS Integers, Sequences, FiniteSets, TLC

VARIABLES
    pc,        \* position of the driver: "reply" | "extracted" | "reextracted" | "diff" | "parsed"
    nread,     \* number of fragments read so far from the provider or from git
    response,  \* raw model reply handed to ExtractCommitMessage
    message,   \* ExtractCommitMessage(response)
    again,     \* ExtractCommitMessage(message): the subject normalized a second time
    output,    \* text printed by `git diff --numstat`
    changes,   \* result of parseDiffOutput(output)
    cwd,       \* depth of the current directory below the file-system root
    dotGit,    \* what the entry ".git" is in each directory from the root down to cwd
    stagedOutput,    \* what `git diff --cached --numstat` printed to GetChanges
    unstagedOutput,  \* what `git diff --numstat` printed to GetChanges
    scan,      \* what GetChanges returned
    subject,   \* the message handed to StageAndCommitAndPush
    spc,       \* position inside StageAndCommitAndPush
    calls,     \* the git commands executed so far, each with its outcome
    remotes,   \* the remotes configured in the repository, in the order git lists them
    ret,       \* what StageAndCommitAndPush returned: (pushed, err)
    models,    \* the model names ListModels returned
    cfgModel,  \* the model name of the configuration
    selectedModel,  \* the model name run passes to GenerateCommitMessage
    backend,   \* outcome of the HTTP exchange with the model backend
    edited,    \* what the operator did in the subject editor
    exitCode,  \* exit status of the process
    events,    \* the steps of run taken so far
    sctx,      \* the spinner's context is cancelled
    sdone,     \* number of values buffered in the spinner's done channel
    gpc,       \* position of the spinner goroutine
    mpc,       \* position of the goroutine that owns the spinner
    ticks,     \* ticks the spinner has drawn (its counter i)
    work,      \* steps the blocking call still has to take
    slog,      \* terminal writes, acknowledgments and returns of Stop, in order
    configFile,  \* the configuration file: absent, or the three fields stored in it
    lastCmd    \* the last configuration command run, with its argument and outcome

replyVars == <<response, message, again>>

scanVars == <<output, changes>>

repoVars == <<cwd, dotGit, stagedOutput, unstagedOutput, scan>>

seqVars == <<subject, spc, calls, remotes, ret>>

runVars == <<models, cfgModel, selectedModel, backend, edited, exitCode, events>>

spinVars == <<sctx, sdone, gpc, mpc, ticks, work, slog>>

confVars == <<configFile, lastCmd>>

vars == <<pc, nread, replyVars, scanVars, repoVars, seqVars, runVars, spinVars, confVars>>

---------------------------------------------------------------------------
(* Bounds of the model. *)

\* number of fragments a model reply is assembled from
MaxPieces == 4

---------------------------------------------------------------------------
(* Characters and literals. *)

NL == <<10>>
SP == <<32>>
TAB == <<9>>
Colon == <<58>>
fence == <<96, 96, 96>>
LParen == <<40>>

w_feat == <<102, 101, 97, 116>>
w_fix == <<102, 105, 120>>
w_core == <<99, 111, 114, 101>>
w_edit == <<101, 100, 105, 116>>
w_del == <<100, 101, 108>>
w_chore == <<99, 104, 111, 114, 101>>
w_docs == <<100, 111, 99, 115>>
w_style == <<115, 116, 121, 108, 101>>
w_refactor == <<114, 101, 102, 97, 99, 116, 111, 114>>
w_perf == <<112, 101, 114, 102>>
w_test == <<116, 101, 115, 116>>
w_ci == <<99, 105>>

\* "commit message:" and "Commit message:"
labelLower == <<99, 111, 109, 109, 105, 116, 32, 109, 101, 115, 115, 97, 103, 101, 58>>
labelCapital == <<67, 111, 109, 109, 105, 116, 32, 109, 101, 115, 115, 97, 103, 101, 58>>

\* "chore: "
chorePrefix == <<99, 104, 111, 114, 101, 58, 32>>

validCommitTypes ==
    { w_feat, w_fix, w_core, w_edit, w_del, w_chore,
      w_docs, w_style, w_refactor, w_perf, w_test, w_ci }

---------------------------------------------------------------------------
(* The Go standard library functions the code calls. *)

\* unicode.IsSpace
IsSpace(c) ==
    \/ c \in {9, 10, 11, 12, 13, 32, 133, 160, 5760, 8232, 8233, 8239, 8287, 12288}
    \/ (c >= 8192 /\ c <= 8202)

\* unicode.ToLower, on the Latin ranges and the Kelvin sign
LowerRune(c) ==
    IF c >= 65 /\ c <= 90 THEN c + 32
    ELSE IF c >= 192 /\ c <= 222 /\ c # 215 THEN c + 32
    ELSE IF c = 8490 THEN 107
    ELSE c

\* the representative of a rune's unicode.SimpleFold orbit
FoldRune(c) ==
    IF c = 383 THEN 115          \* long s folds with s and S
    ELSE LowerRune(c)

\* the text with the casing it has
KeepCase(s) == s

ToLower(s) == [i \in 1..Len(s) |-> LowerRune(s[i])]

EqualFold(s, t) ==
    /\ Len(s) = Len(t)
    /\ \A i \in 1..Len(s) : FoldRune(s[i]) = FoldRune(t[i])

HasPrefix(s, p) == Len(s) >= Len(p) /\ SubSeq(s, 1, Len(p)) = p

HasSuffix(s, p) == Len(s) >= Len(p) /\ SubSeq(s, Len(s) - Len(p) + 1, Len(s)) = p

TrimPrefix(s, p) == IF HasPrefix(s, p) THEN SubSeq(s, Len(p) + 1, Len(s)) ELSE s

TrimSuffix(s, p) == IF HasSuffix(s, p) THEN SubSeq(s, 1, Len(s) - Len(p)) ELSE s

SetMin(S) == CHOOSE x \in S : \A y \in S : x <= y

SetMax(S) == CHOOSE x \in S : \A y \in S : x >= y

TrimSpaceAsciiOnly(s) ==
    LET keep == {i \in 1..Len(s) : s[i] # 32}
    IN  IF keep = {} THEN <<>> ELSE SubSeq(s, SetMin(keep), SetMax(keep))

TrimSpace(s) ==
    LET keep == {i \in 1..Len(s) : ~IsSpace(s[i])}
    IN  IF keep = {} THEN <<>> ELSE SubSeq(s, SetMin(keep), SetMax(keep))

\* strings.Index(s, sub): 1-based position of the first occurrence, 0 if none
Index(s, sub) ==
    LET at == {i \in 1..(Len(s) - Len(sub) + 1) : SubSeq(s, i, i + Len(sub) - 1) = sub}
    IN  IF at = {} THEN 0 ELSE SetMin(at)

Contains(s, sub) == Index(s, sub) # 0

\* strings.Split(s, "\n")
RECURSIVE SplitLines(_)
SplitLines(s) ==
    LET i == Index(s, NL)
    IN  IF i = 0 THEN <<s>>
        ELSE <<SubSeq(s, 1, i - 1)>> \o SplitLines(SubSeq(s, i + 1, Len(s)))

\* strings.Fields(s): the maximal runs of non-space characters
RECURSIVE Fields(_)
Fields(s) ==
    LET starts == {i \in 1..Len(s) : ~IsSpace(s[i])}
    IN  IF starts = {} THEN <<>>
        ELSE LET b == SetMin(starts)
                 stops == {i \in b..Len(s) : IsSpace(s[i])}
                 e == IF stops = {} THEN Len(s) + 1 ELSE SetMin(stops)
             IN  <<SubSeq(s, b, e - 1)>> \o Fields(SubSeq(s, e, Len(s)))

\* strings.Join(parts, sep)
RECURSIVE Join(_, _)
Join(parts, sep) ==
    IF Len(parts) = 0 THEN <<>>
    ELSE IF Len(parts) = 1 THEN parts[1]
    ELSE parts[1] \o sep \o Join(Tail(parts), sep)

\* strings.Replace(s, old, new, 1) for a non-empty old
ReplaceFirst(s, old, new) ==
    LET i == Index(s, old)
    IN  IF i = 0 THEN s
        ELSE SubSeq(s, 1, i - 1) \o new \o SubSeq(s, i + Len(old), Len(s))

---------------------------------------------------------------------------
(* internal/prompt/builder.go *)

isASCII(s) == \A i \in 1..Len(s) : s[i] <= 127

\* the type name cut out of the type token (builder.go 133-145)
typeNameOf(typePart) ==
    IF Contains(typePart, LParen)
    THEN ToLower(SubSeq(typePart, 1, Index(typePart, LParen) - 1))
    ELSE IF Contains(typePart, Colon)
    THEN ToLower(SubSeq(typePart, 1, Index(typePart, Colon) - 1))
    ELSE ToLower(typePart)

typeIndexSkippingFirst(parts) ==
    IF Len(parts) > 1 THEN 2 ELSE 1

\* 1-based index of the type token among the fields (builder.go 120-124)
typeIndexOf(parts) ==
    IF Len(parts) > 1 /\ (Len(parts[1]) = 1 \/ ~isASCII(parts[1])) THEN 2 ELSE 1

validateAndNormalizeCommitType(msg) ==
    LET parts == Fields(msg)
    IN  IF Len(parts) = 0 THEN msg
        ELSE
        LET typeIndex == typeIndexOf(parts)
            typePart == parts[typeIndex]
            typeName == typeNameOf(typePart)
        IN  IF typeName \notin validCommitTypes
            THEN IF \E v \in validCommitTypes : EqualFold(typeName, v)
                 THEN \* at most one vocabulary word folds to typeName, so the
                      \* map's iteration order does not change the result
                      LET validType == CHOOSE v \in validCommitTypes : EqualFold(typeName, v)
                      IN  Join([parts EXCEPT ![typeIndex] =
                                   ReplaceFirst(parts[typeIndex], typePart, validType)], SP)
                 ELSE IF /\ ~HasPrefix(ToLower(msg), w_chore)
                         /\ ~HasPrefix(ToLower(msg), w_feat)
                         /\ ~HasPrefix(ToLower(msg), w_fix)
                      THEN chorePrefix \o msg
                      ELSE msg
            ELSE IF typeName # typePart
                 THEN Join([parts EXCEPT ![typeIndex] =
                               ReplaceFirst(parts[typeIndex], typePart, typeName)], SP)
                 ELSE msg

\* builder.go 70-74: the label prefix
stripLabel(firstLine) ==
    IF HasPrefix(ToLower(firstLine), labelLower)
    THEN TrimSpace(TrimPrefix(TrimPrefix(firstLine, labelLower), labelCapital))
    ELSE firstLine

\* builder.go 84-87: the trailing fence
stripTrailingFence(firstLine) ==
    IF HasSuffix(firstLine, fence)
    THEN TrimSpace(TrimSuffix(firstLine, fence))
    ELSE firstLine

\* builder.go 57-87: the candidate line handed to the type validation;
\* [ok |-> FALSE] stands for the early `return ""`
candidateLine(resp) ==
    LET trimmed == TrimSpace(resp)
        lines == SplitLines(trimmed)
        line0 == TrimSpace(lines[1])
    IN  IF line0 = <<>> THEN [ok |-> FALSE, line |-> <<>>]
        ELSE LET labelled == stripLabel(line0)
             IN  IF HasPrefix(labelled, fence)
                 THEN IF Len(lines) > 1
                      THEN [ok |-> TRUE, line |-> stripTrailingFence(TrimSpace(lines[2]))]
                      ELSE [ok |-> FALSE, line |-> <<>>]
                 ELSE [ok |-> TRUE, line |-> stripTrailingFence(labelled)]

ExtractCommitMessage(resp) ==
    LET c == candidateLine(resp)
    IN  IF c.ok THEN validateAndNormalizeCommitType(c.line) ELSE <<>>

---------------------------------------------------------------------------
(* The normalizer applied to model replies. *)

\* the value of `changes` before parseDiffOutput has run
NotParsed == [panicked |-> FALSE, list |-> <<>>, err |-> "nil"]

\* the value of `scan` before GetChanges has returned
NilChanges == [isNil |-> TRUE, Staged |-> <<>>, Unstaged |-> <<>>]

NotScanned == [panicked |-> FALSE, changes |-> NilChanges, err |-> "pending"]

\* the value of `ret` before StageAndCommitAndPush has returned
NotReturned == [pushed |-> FALSE, err |-> <<"pending">>]

\* StageAndCommitAndPush is not part of the run
IdleSeq ==
    /\ subject = <<>>
    /\ spc = "idle"
    /\ calls = <<>>
    /\ remotes = <<>>
    /\ ret = NotReturned

\* the default action is not part of the run
IdleRun ==
    /\ models = <<>>
    /\ cfgModel = "none"
    /\ selectedModel = "none"
    /\ backend = "pending"
    /\ edited = "none"
    /\ exitCode = 0
    /\ events = <<>>

\* the configuration file when there is none
Absent == [exists |-> FALSE, Provider |-> <<>>, Endpoint |-> <<>>, Model |-> ""]

\* the value of `lastCmd` before any command has run
NoCmd == [name |-> "none", arg |-> <<>>, exit |-> 0, before |-> Absent]

\* no configuration command is part of the run
IdleConf ==
    /\ configFile = Absent
    /\ lastCmd = NoCmd

\* no spinner is part of the run
IdleSpin ==
    /\ sctx = FALSE
    /\ sdone = 0
    /\ gpc = "none"
    /\ mpc = "none"
    /\ ticks = 0
    /\ work = 0
    /\ slog = <<>>

\* GetChanges is not part of the run
IdleRepo ==
    /\ cwd = 0
    /\ dotGit = <<"dir">>
    /\ stagedOutput = <<>>
    /\ unstagedOutput = <<>>
    /\ scan = NotScanned

\* "FIX", "(ui)", "up", a sparkles emoji, "te<long s>t"; the label is
\* "Commit message:"
u_FIX == <<70, 73, 88>>
scopeUi == <<40, 117, 105, 41>>
wordUp == <<117, 112>>
emoji == <<10024>>
longsTest == <<116, 101, 383, 116>>

ReplyPieces ==
    { w_feat, u_FIX, scopeUi, Colon, SP, TAB, NL, wordUp, fence, emoji, longsTest,
      labelCapital }

InitReply ==
    /\ pc = "reply"
    /\ nread = 0
    /\ response = <<>>
    /\ message = <<>>
    /\ again = <<>>
    /\ output = <<>>
    /\ changes = NotParsed
    /\ IdleRepo
    /\ IdleSeq
    /\ IdleRun
    /\ IdleSpin
    /\ IdleConf

\* the provider streams one more fragment of its reply
ReceivePiece(pieces, max) ==
    /\ pc = "reply"
    /\ nread < max
    /\ \E p \in pieces : response' = response \o p
    /\ nread' = nread + 1
    /\ UNCHANGED <<pc, message, again, scanVars, repoVars, seqVars, runVars, spinVars, confVars>>

Extract ==
    /\ pc = "reply"
    /\ message' = ExtractCommitMessage(response)
    /\ pc' = "extracted"
    /\ UNCHANGED <<nread, response, again, scanVars, repoVars, seqVars, runVars, spinVars, confVars>>

Reextract ==
    /\ pc = "extracted"
    /\ again' = ExtractCommitMessage(message)
    /\ pc' = "reextracted"
    /\ UNCHANGED <<nread, response, message, scanVars, repoVars, seqVars, runVars, spinVars, confVars>>

ReceiveReply == ReceivePiece(ReplyPieces, MaxPieces)

NextNormalize == ReceiveReply \/ Extract \/ Reextract

SpecNormalize == InitReply /\ [][NextNormalize]_vars

\* a reply wrapped in a code fence, assembled from whole lines
\* "feat: up" and "fix(ui): up"
subjectFeat == <<102, 101, 97, 116, 58, 32, 117, 112>>
subjectFixUi == <<102, 105, 120, 40, 117, 105, 41, 58, 32, 117, 112>>

MaxFencePieces == 5

FencePieces == { fence, NL, SP, subjectFeat, subjectFixUi, wordUp }

ReceiveFenced == ReceivePiece(FencePieces, MaxFencePieces)

NextFence == ReceiveFenced \/ Extract \/ Reextract

SpecFence == InitReply /\ [][NextFence]_vars

\* number of fragments a long reply is assembled from
MaxLongPieces == 4

\* length of the long word of a long reply
LongWordLen == 36

\* the length below which the README says the subject is kept
SubjectLimit == 72

\* a word of LongWordLen letters a
longWord == [i \in 1..LongWordLen |-> 97]

\* a reply with long lines, assembled from a subject, long words and line ends
LongPieces == { subjectFeat, SP, longWord, NL }

ReceiveLong == ReceivePiece(LongPieces, MaxLongPieces)

NextLong == ReceiveLong \/ Extract \/ Reextract

SpecLong == InitReply /\ [][NextLong]_vars

\* number of fragments a labelled reply is assembled from
MaxLabelPieces == 3

\* "COMMIT MESSAGE:" and "Commit Message:"
labelUpper == <<67, 79, 77, 77, 73, 84, 32, 77, 69, 83, 83, 65, 71, 69, 58>>
labelTitle == <<67, 111, 109, 109, 105, 116, 32, 77, 101, 115, 115, 97, 103, 101, 58>>

\* a reply that begins with a label in some casing
LabelPieces == { labelLower, labelCapital, labelUpper, labelTitle, SP, subjectFeat, wordUp }

ReceiveLabelled == ReceivePiece(LabelPieces, MaxLabelPieces)

NextLabel == ReceiveLabelled \/ Extract \/ Reextract

SpecLabel == InitReply /\ [][NextLabel]_vars

---------------------------------------------------------------------------
(* internal/git/scanner.go *)

ChangeTypeAdded == "add"
ChangeTypeModified == "edit"
ChangeTypeDeleted == "del"
ChangeTypeRenamed == "rename"

determineChangeTypeIgnoringDeletions(additions, deletions) ==
    IF additions > 0 THEN ChangeTypeAdded
    ELSE IF additions = 0 /\ deletions > 0 THEN ChangeTypeDeleted
    ELSE ChangeTypeModified

determineChangeType(additions, deletions) ==
    IF additions > 0 /\ deletions = 0 THEN ChangeTypeAdded
    ELSE IF additions = 0 /\ deletions > 0 THEN ChangeTypeDeleted
    ELSE ChangeTypeModified

IsDigit(c) == c >= 48 /\ c <= 57

\* value of a run of decimal digits
RECURSIVE DecimalValue(_)
DecimalValue(ds) ==
    IF ds = <<>> THEN 0
    ELSE 10 * DecimalValue(SubSeq(ds, 1, Len(ds) - 1)) + (ds[Len(ds)] - 48)

\* fmt.Sscanf(tok, "%d", &n) on a variable that holds 0: an optional sign,
\* then the longest run of digits; without a digit the scan fails and the
\* variable keeps its zero value. [ok] tells whether the scan succeeded.
\* The numerals of the model stay far below the 64-bit range.
scanInt(tok) ==
    LET signed == tok # <<>> /\ tok[1] \in {43, 45}
        from == IF signed THEN 2 ELSE 1
        nondigit == {i \in from..Len(tok) : ~IsDigit(tok[i])}
        to == IF nondigit = {} THEN Len(tok) ELSE SetMin(nondigit) - 1
        magnitude == DecimalValue(SubSeq(tok, from, to))
    IN  IF to < from THEN [ok |-> FALSE, n |-> 0]
        ELSE [ok |-> TRUE,
              n |-> IF signed /\ tok[1] = 45 THEN 0 - magnitude ELSE magnitude]

NoChange == [Path |-> <<>>, Type |-> ChangeTypeModified, Additions |-> 0, Deletions |-> 0]

\* one round of the loop of parseDiffOutput (scanner.go 118-146):
\* the line is skipped, appended as a FileChange, or parts[2] is read past
\* the end of a two-element slice and the program panics
parseLineSkippingUnparsed(rawLine) ==
    LET line == TrimSpace(rawLine)
        parts == Fields(line)
    IN  IF line = <<>> \/ Len(parts) < 2 THEN [kind |-> "skip", change |-> NoChange]
        ELSE IF ~scanInt(parts[1]).ok \/ ~scanInt(parts[2]).ok
        THEN [kind |-> "skip", change |-> NoChange]
        ELSE IF Len(parts) = 2 THEN [kind |-> "panic", change |-> NoChange]
        ELSE LET additions == scanInt(parts[1]).n
                 deletions == scanInt(parts[2]).n
                 filePath == IF Len(parts) > 3
                             THEN Join(SubSeq(parts, 3, Len(parts)), SP)
                             ELSE parts[3]
             IN  [kind |-> "change",
                  change |-> [Path |-> filePath,
                              Type |-> determineChangeType(additions, deletions),
                              Additions |-> additions,
                              Deletions |-> deletions]]

parseLine(rawLine) ==
    LET line == TrimSpace(rawLine)
        parts == Fields(line)
    IN  IF line = <<>> \/ Len(parts) < 2 THEN [kind |-> "skip", change |-> NoChange]
        ELSE IF Len(parts) = 2 THEN [kind |-> "panic", change |-> NoChange]
        ELSE LET additions == scanInt(parts[1]).n
                 deletions == scanInt(parts[2]).n
                 filePath == IF Len(parts) > 3
                             THEN Join(SubSeq(parts, 3, Len(parts)), SP)
                             ELSE parts[3]
             IN  [kind |-> "change",
                  change |-> [Path |-> filePath,
                              Type |-> determineChangeType(additions, deletions),
                              Additions |-> additions,
                              Deletions |-> deletions]]

RECURSIVE collectChanges(_)
collectChanges(rs) ==
    IF rs = <<>> THEN <<>>
    ELSE (IF Head(rs).kind = "change" THEN <<Head(rs).change>> ELSE <<>>)
         \o collectChanges(Tail(rs))

\* parseDiffOutput: [panicked] when the run-time aborted the program,
\* otherwise the returned list and error
parseDiffOutput(out) ==
    IF out = <<>> THEN [panicked |-> FALSE, list |-> <<>>, err |-> "nil"]
    ELSE LET lines == SplitLines(TrimSpace(out))
             rs == [i \in 1..Len(lines) |-> parseLine(lines[i])]
         IN  IF \E i \in 1..Len(rs) : rs[i].kind = "panic"
             THEN [panicked |-> TRUE, list |-> <<>>, err |-> "nil"]
             ELSE [panicked |-> FALSE, list |-> collectChanges(rs), err |-> "nil"]

---------------------------------------------------------------------------
(* The scanner applied to the output of git diff --numstat. *)

\* number of fragments the diff-stat output is assembled from
MaxDiffPieces == 6

\* "3<TAB>", "0<TAB>", "-<TAB>" (the binary placeholder), "a"
count3 == <<51, 9>>
count0 == <<48, 9>>
countBinary == <<45, 9>>
pathA == <<97>>

DiffPieces == { count3, count0, countBinary, pathA, SP, NL }

InitDiff ==
    /\ pc = "diff"
    /\ nread = 0
    /\ response = <<>>
    /\ message = <<>>
    /\ again = <<>>
    /\ output = <<>>
    /\ changes = NotParsed
    /\ IdleRepo
    /\ IdleSeq
    /\ IdleRun
    /\ IdleSpin
    /\ IdleConf

\* git writes one more fragment of its output
ReceiveDiff ==
    /\ pc = "diff"
    /\ nread < MaxDiffPieces
    /\ \E p \in DiffPieces : output' = output \o p
    /\ nread' = nread + 1
    /\ UNCHANGED <<pc, replyVars, changes, repoVars, seqVars, runVars, spinVars, confVars>>

ParseDiff ==
    /\ pc = "diff"
    /\ changes' = parseDiffOutput(output)
    /\ pc' = "parsed"
    /\ UNCHANGED <<nread, replyVars, output, repoVars, seqVars, runVars, spinVars, confVars>>

NextScan == ReceiveDiff \/ ParseDiff

SpecScan == InitDiff /\ [][NextScan]_vars

---------------------------------------------------------------------------
(* internal/git/scanner.go: GetChanges *)

\* deepest current directory below the root
MaxDepth == 2

\* what os.Stat finds for ".git" in a directory: nothing, a directory,
\* a regular file, or an error other than "does not exist"
DotGitKinds == {"none", "dir", "file", "denied"}

ErrGetwd == "failed to get working directory"
ErrCheckRepo == "failed to check git repo"
ErrNotARepo == "not a git repository"
ErrStaged == "failed to get staged changes"
ErrUnstaged == "failed to get unstaged changes"
ErrNoChanges == "no uncommitted changes found"

IsGitRepo(entry) ==
    IF entry = "none" THEN [isRepo |-> FALSE, err |-> "nil"]
    ELSE IF entry = "denied" THEN [isRepo |-> FALSE, err |-> "stat"]
    ELSE [isRepo |-> entry = "dir", err |-> "nil"]

\* getStagedChanges and getUnstagedChanges: the command fails, or its
\* output is parsed (an *exec.ExitError never carries exit code 0)
getChanges(cmdOk, out) ==
    IF ~cmdOk THEN [panicked |-> FALSE, list |-> <<>>, err |-> "failed to run git diff"]
    ELSE parseDiffOutput(out)

Failed(e) == [panicked |-> FALSE, changes |-> NilChanges, err |-> e]

Crashed == [panicked |-> TRUE, changes |-> NilChanges, err |-> "nil"]

GetChangesWithoutEmptyCheck(getwdOk, entry, sOk, sOut, uOk, uOut) ==
    IF ~getwdOk THEN Failed(ErrGetwd)
    ELSE IF IsGitRepo(entry).err # "nil" THEN Failed(ErrCheckRepo)
    ELSE IF ~IsGitRepo(entry).isRepo THEN Failed(ErrNotARepo)
    ELSE LET staged == getChanges(sOk, sOut)
             unstaged == getChanges(uOk, uOut)
         IN  IF staged.panicked THEN Crashed
             ELSE IF staged.err # "nil" THEN Failed(ErrStaged)
             ELSE IF unstaged.panicked THEN Crashed
             ELSE IF unstaged.err # "nil" THEN Failed(ErrUnstaged)
             ELSE [panicked |-> FALSE,
                   changes |-> [isNil |-> FALSE,
                               Staged |-> staged.list, Unstaged |-> unstaged.list],
                   err |-> "nil"]

\* GetChanges run in a directory whose ".git" entry is `entry`, with the
\* outcomes of os.Getwd and of the two git commands
GetChangesResult(getwdOk, entry, sOk, sOut, uOk, uOut) ==
    IF ~getwdOk THEN Failed(ErrGetwd)
    ELSE IF IsGitRepo(entry).err # "nil" THEN Failed(ErrCheckRepo)
    ELSE IF ~IsGitRepo(entry).isRepo THEN Failed(ErrNotARepo)
    ELSE LET staged == getChanges(sOk, sOut)
             unstaged == getChanges(uOk, uOut)
         IN  IF staged.panicked THEN Crashed
             ELSE IF staged.err # "nil" THEN Failed(ErrStaged)
             ELSE IF unstaged.panicked THEN Crashed
             ELSE IF unstaged.err # "nil" THEN Failed(ErrUnstaged)
             ELSE IF Len(staged.list) = 0 /\ Len(unstaged.list) = 0
             THEN Failed(ErrNoChanges)
             ELSE [panicked |-> FALSE,
                   changes |-> [isNil |-> FALSE,
                               Staged |-> staged.list, Unstaged |-> unstaged.list],
                   err |-> "nil"]

\* texts git may print: nothing, a blank line, one file, a path with a
\* space, a binary file, two files, a line of two tokens, a line of one token
DiffOutputs ==
    { <<>>,
      NL,
      count3 \o count0 \o pathA \o NL,
      count0 \o count3 \o pathA \o SP \o pathA \o NL,
      countBinary \o countBinary \o pathA \o NL,
      count3 \o count0 \o pathA \o NL \o count0 \o count0 \o pathA \o NL,
      count3 \o count0 \o NL,
      pathA \o NL }

InitRepo ==
    /\ pc = "scan"
    /\ nread = 0
    /\ response = <<>>
    /\ message = <<>>
    /\ again = <<>>
    /\ output = <<>>
    /\ changes = NotParsed
    /\ cwd \in 0..MaxDepth
    /\ dotGit \in [1..(cwd + 1) -> DotGitKinds]
    /\ stagedOutput = <<>>
    /\ unstagedOutput = <<>>
    /\ scan = NotScanned
    /\ IdleSeq
    /\ IdleRun
    /\ IdleSpin
    /\ IdleConf

GetChanges ==
    /\ pc = "scan"
    /\ \E getwdOk, sOk, uOk \in BOOLEAN, sOut, uOut \in DiffOutputs :
         /\ stagedOutput' = sOut
         /\ unstagedOutput' = uOut
         /\ scan' = GetChangesResult(getwdOk, dotGit[cwd + 1], sOk, sOut, uOk, uOut)
    /\ pc' = "scanned"
    /\ UNCHANGED <<nread, replyVars, scanVars, cwd, dotGit, seqVars, runVars, spinVars, confVars>>

NextRepo == GetChanges

SpecRepo == InitRepo /\ [][NextRepo]_vars

---------------------------------------------------------------------------
(* internal/git/commit.go: staging, committing and pushing *)

\* number of remotes configured in the repository
MaxRemotes == 2

w_origin == <<111, 114, 105, 103, 105, 110>>
w_Origin == <<79, 114, 105, 103, 105, 110>>
w_origin2 == <<111, 114, 105, 103, 105, 110, 50>>

defaultRemote == w_origin

\* an error is the chain of its messages, outermost first; nil is the empty chain
Nil == <<>>

\* fmt.Errorf("msg: %w", err)
Wrap(msg, err) == <<msg>> \o err

ErrStageChanges == "failed to stage changes"
ErrEmptyMessage == "commit message cannot be empty"
ErrCreateCommit == "failed to create commit"
ErrPush == "failed to push"
ErrListRemotes == "failed to list git remotes"
ErrPushFailed == "commit successful but push failed"

\* the error of a child process that exited unsuccessfully
ExitError == <<"exit status 1">>

\* how the lookup of the repository root ends
RootOutcomes == {"ok", "getwd", "noroot"}

\* what the environment does to each function: the outcome of its root lookup
\* and whether its git command exits successfully
Environments ==
    [{"add", "commit", "remote", "push"} -> [root : RootOutcomes, ok : BOOLEAN]]

Call(cmd, ok) == [cmd |-> cmd, ok |-> ok]

getGitRoot(root) ==
    IF root = "getwd" THEN Wrap("failed to get working directory", <<"getwd">>)
    ELSE IF root = "noroot" THEN <<"git root not found">>
    ELSE Nil

\* runs `git <cmd>` in the root unless the root lookup fails
RunGit(cmd, e, failure, log) ==
    IF getGitRoot(e.root) # Nil THEN [err |-> getGitRoot(e.root), calls |-> log]
    ELSE IF ~e.ok THEN [err |-> Wrap(failure, ExitError), calls |-> Append(log, Call(cmd, FALSE))]
    ELSE [err |-> Nil, calls |-> Append(log, Call(cmd, TRUE))]

StageAll(env, log) == RunGit("add", env["add"], ErrStageChanges, log)

CommitReportingSuccess(m, env, log) ==
    [err |-> Nil, calls |-> RunGit("commit", env["commit"], ErrCreateCommit, log).calls]

Commit(m, env, log) ==
    IF TrimSpace(m) = <<>> THEN [err |-> <<ErrEmptyMessage>>, calls |-> log]
    ELSE RunGit("commit", env["commit"], ErrCreateCommit, log)

Push(env, log) == RunGit("push", env["push"], ErrPush, log)

\* the output of `git remote`: one configured name per line
RECURSIVE remoteOutput(_)
remoteOutput(rs) ==
    IF rs = <<>> THEN <<>> ELSE Head(rs) \o NL \o remoteOutput(Tail(rs))

\* some line of the list begins with the name
hasRemoteByPrefix(remoteName, rs, env, log) ==
    LET r == RunGit("remote", env["remote"], ErrListRemotes, log)
        list == TrimSpace(remoteOutput(rs))
        lines == SplitLines(list)
    IN  [has |-> r.err = Nil /\ list # <<>>
                    /\ \E i \in 1..Len(lines) : HasPrefix(TrimSpace(lines[i]), remoteName),
         err |-> r.err, calls |-> r.calls]

hasRemote(remoteName, rs, env, log) ==
    LET r == RunGit("remote", env["remote"], ErrListRemotes, log)
        list == TrimSpace(remoteOutput(rs))
        lines == SplitLines(list)
    IN  [has |-> r.err = Nil /\ list # <<>>
                    /\ \E i \in 1..Len(lines) : TrimSpace(lines[i]) = remoteName,
         err |-> r.err, calls |-> r.calls]

pushIfRemoteExists(rs, env, log) ==
    LET h == hasRemote(defaultRemote, rs, env, log)
        p == Push(env, h.calls)
    IN  IF h.err # Nil THEN [pushed |-> FALSE, err |-> h.err, calls |-> h.calls]
        ELSE IF ~h.has THEN [pushed |-> FALSE, err |-> Nil, calls |-> h.calls]
        ELSE IF p.err # Nil THEN [pushed |-> FALSE, err |-> p.err, calls |-> p.calls]
        ELSE [pushed |-> TRUE, err |-> Nil, calls |-> p.calls]

\* the error of the push step is returned as it is
passPushError(err) == err

\* the error of the push step as StageAndCommitAndPush returns it
wrapPushError(err) == Wrap(ErrPushFailed, err)

StageAndCommitAndPushResult(m, rs, env, log) ==
    LET s == StageAll(env, log)
        c == Commit(m, env, s.calls)
        p == pushIfRemoteExists(rs, env, c.calls)
    IN  IF s.err # Nil
        THEN [pushed |-> FALSE, err |-> Wrap(ErrStageChanges, s.err), calls |-> s.calls]
        ELSE IF c.err # Nil THEN [pushed |-> FALSE, err |-> c.err, calls |-> c.calls]
        ELSE IF p.err # Nil
        THEN [pushed |-> FALSE, err |-> wrapPushError(p.err), calls |-> p.calls]
        ELSE [pushed |-> p.pushed, err |-> Nil, calls |-> p.calls]

---------------------------------------------------------------------------
(* StageAndCommitAndPush applied to a subject in a repository. *)

\* origin, Origin, origin2, upstream
RemoteNames == {w_origin, w_Origin, w_origin2, <<117, 112, 115, 116, 114, 101, 97, 109>>}

\* the remotes a repository can have: distinct names, in any order
RemoteLists ==
    {rs \in UNION {[1..n -> RemoteNames] : n \in 0..MaxRemotes} :
        \A i, j \in 1..Len(rs) : rs[i] = rs[j] => i = j}

\* the messages handed to the sequence
Subjects == {<<>>, SP, wordUp, subjectFeat}

InitSequencer ==
    /\ pc = "sequence"
    /\ nread = 0
    /\ response = <<>>
    /\ message = <<>>
    /\ again = <<>>
    /\ output = <<>>
    /\ changes = NotParsed
    /\ IdleRepo
    /\ subject \in Subjects
    /\ spc = "called"
    /\ calls = <<>>
    /\ remotes \in RemoteLists
    /\ ret = NotReturned
    /\ IdleRun
    /\ IdleSpin
    /\ IdleConf

StageAndCommitAndPush ==
    /\ spc = "called"
    /\ \E env \in Environments :
        LET r == StageAndCommitAndPushResult(subject, remotes, env, calls)
        IN  /\ calls' = r.calls
            /\ ret' = [pushed |-> r.pushed, err |-> r.err]
    /\ spc' = "returned"
    /\ UNCHANGED <<pc, nread, replyVars, scanVars, repoVars, subject, remotes, runVars, spinVars, confVars>>

NextSequencer == StageAndCommitAndPush

SpecSequencer == InitSequencer /\ [][NextSequencer]_vars

---------------------------------------------------------------------------
(* cmd/root.go: the default action, with the provider clients and the UI
   it calls *)

\* number of models ListModels returns
MaxModels == 2

ErrEmptyResponse == "empty response from model"

\* Client.GenerateCommitMessage: the HTTP exchange and the content of the reply
GenerateCommitMessage(httpOk, content) ==
    IF ~httpOk THEN [content |-> <<>>, err |-> <<"failed to make request">>]
    ELSE IF content = <<>> THEN [content |-> <<>>, err |-> <<ErrEmptyResponse>>]
    ELSE [content |-> content, err |-> Nil]

\* the keys that end the subject editor; "none" is a program that ended
\* without one of them
EditKeys == {"enter", "esc", "ctrl+c", "none"}

\* an abort hands back the text of the input field
EditCommitMessageKeepingText(initialMessage, key, typed, uiOk) ==
    IF ~uiOk THEN [msg |-> <<>>, err |-> <<"failed to run UI">>]
    ELSE IF key = "none" THEN [msg |-> <<>>, err |-> <<"message editing cancelled">>]
    ELSE [msg |-> typed, err |-> Nil]

\* `typed` is the value of the input field when the key arrives
EditCommitMessage(initialMessage, key, typed, uiOk) ==
    IF ~uiOk THEN [msg |-> <<>>, err |-> <<"failed to run UI">>]
    ELSE IF key \in {"ctrl+c", "esc"} THEN [msg |-> <<>>, err |-> Nil]
    ELSE IF key = "enter" THEN [msg |-> typed, err |-> Nil]
    ELSE [msg |-> <<>>, err |-> <<"message editing cancelled">>]

\* the keys that end the model list
SelectKeys == {"enter", "q", "ctrl+c"}

\* a list left without a choice gives the empty name
SelectModelWithoutFallback(ms, defaultModel, key, cursor, uiOk) ==
    IF ~uiOk THEN [name |-> "", err |-> <<"failed to run UI">>]
    ELSE [name |-> IF key = "enter" THEN ms[cursor] ELSE "", err |-> Nil]

\* `cursor` is the item the list shows selected when the key arrives
SelectModel(ms, defaultModel, key, cursor, uiOk) ==
    LET hits == {i \in 1..Len(ms) : ms[i] = defaultModel}
        selectedIndex == IF hits = {} THEN 1 ELSE SetMax(hits)
        choice == IF key = "enter" THEN ms[cursor] ELSE ""
    IN  IF ~uiOk THEN [name |-> "", err |-> <<"failed to run UI">>]
        ELSE IF choice # "" THEN [name |-> choice, err |-> Nil]
        ELSE IF Len(ms) > 0 THEN [name |-> ms[selectedIndex], err |-> Nil]
        ELSE [name |-> defaultModel, err |-> Nil]

---------------------------------------------------------------------------
(* The default action run in a repository, against a backend. *)

\* the lists of models a backend may serve
ModelLists == UNION {[1..n -> {"m1", "m2"}] : n \in 0..MaxModels}

\* the model names a configuration may hold
ConfiguredModels == {"m1", "m3"}

\* the contents a backend may reply: nothing, a blank, a bare word, a subject
Replies == {<<>>, SP, wordUp, subjectFeat}

\* the texts the operator may leave in the input field
TypedTexts == {<<>>, SP, subjectFeat}

\* what git prints for the two diffs: nothing, one file, a line of two tokens
RunDiffOutputs == {<<>>, count3 \o count0 \o pathA \o NL, count3 \o count0 \o NL}

InitRun ==
    /\ pc = "run_scan"
    /\ nread = 0
    /\ response = <<>>
    /\ message = <<>>
    /\ again = <<>>
    /\ output = <<>>
    /\ changes = NotParsed
    /\ cwd = 0
    /\ dotGit \in {<<"dir">>, <<"none">>}
    /\ stagedOutput = <<>>
    /\ unstagedOutput = <<>>
    /\ scan = NotScanned
    /\ subject = <<>>
    /\ spc = "idle"
    /\ calls = <<>>
    /\ remotes \in {rs \in RemoteLists : Len(rs) <= 1}
    /\ ret = NotReturned
    /\ IdleRun
    /\ IdleSpin
    /\ IdleConf

\* os.Exit(code)
Exit(code) == pc' = "exited" /\ exitCode' = code

\* the failure is noted in the exit status and run goes on
ProceedRegardless(ok, step, next) ==
    /\ events' = Append(events, step)
    /\ pc' = next
    /\ exitCode' = IF ok THEN exitCode ELSE 1

\* the step after `step`: the next position, or exit status 1 on failure
Proceed(ok, step, next) ==
    /\ events' = Append(events, step)
    /\ IF ok THEN pc' = next /\ exitCode' = exitCode ELSE Exit(1)

RunGetChanges ==
    /\ pc = "run_scan"
    /\ \E getwdOk, sOk, uOk \in BOOLEAN, sOut, uOut \in RunDiffOutputs :
         LET r == GetChangesResult(getwdOk, dotGit[cwd + 1], sOk, sOut, uOk, uOut)
         IN  /\ stagedOutput' = sOut
             /\ unstagedOutput' = uOut
             /\ scan' = r
             /\ events' = Append(events, "scan")
             /\ IF r.panicked THEN Exit(2)
                ELSE IF r.err # "nil" THEN Exit(1)
                ELSE pc' = "run_diff" /\ exitCode' = exitCode
    /\ UNCHANGED <<nread, replyVars, scanVars, cwd, dotGit, seqVars, models,
                   cfgModel, selectedModel, backend, edited, spinVars, confVars>>

RunGetDiffContent ==
    /\ pc = "run_diff"
    /\ \E ok \in BOOLEAN : Proceed(ok, "diff", "run_config")
    /\ UNCHANGED <<nread, replyVars, scanVars, repoVars, seqVars, models,
                   cfgModel, selectedModel, backend, edited, spinVars, confVars>>

\* config.LoadConfig and newProvider
RunLoadConfig ==
    /\ pc = "run_config"
    /\ \E loaded, known \in BOOLEAN, m \in ConfiguredModels :
         /\ cfgModel' = IF loaded THEN m ELSE cfgModel
         /\ Proceed(loaded /\ known, "config", "run_connect")
    /\ UNCHANGED <<nread, replyVars, scanVars, repoVars, seqVars, models,
                   selectedModel, backend, edited, spinVars, confVars>>

RunCheckConnection ==
    /\ pc = "run_connect"
    /\ \E ok \in BOOLEAN :
         /\ selectedModel' = IF ok THEN cfgModel ELSE selectedModel
         /\ Proceed(ok, "connect", "run_list")
    /\ UNCHANGED <<nread, replyVars, scanVars, repoVars, seqVars, models,
                   cfgModel, backend, edited, spinVars, confVars>>

\* prov.ListModels and the search for the configured model in its result
RunListModels ==
    /\ pc = "run_list"
    /\ \E ok \in BOOLEAN, ms \in ModelLists :
         LET listed == IF ok THEN ms ELSE <<>>
             found == \E i \in 1..Len(listed) : listed[i] = selectedModel
         IN  /\ models' = listed
             /\ events' = Append(events, IF ok THEN "list" ELSE "list_failed")
             /\ pc' = IF ok /\ Len(listed) > 0 /\ ~found
                      THEN "run_select" ELSE "run_generate"
    /\ UNCHANGED <<nread, replyVars, scanVars, repoVars, seqVars, cfgModel,
                   selectedModel, backend, edited, exitCode, spinVars, confVars>>

\* ui.SelectModel(models, models[0].Name) and config.SetModel
RunSelectModel ==
    /\ pc = "run_select"
    /\ \E key \in SelectKeys, cursor \in 1..Len(models), uiOk \in BOOLEAN :
         LET r == SelectModel(models, models[1], key, cursor, uiOk)
         IN  /\ selectedModel' = IF r.err = Nil THEN r.name ELSE selectedModel
             /\ Proceed(r.err = Nil, "select", "run_generate")
    /\ UNCHANGED <<nread, replyVars, scanVars, repoVars, seqVars, models,
                   cfgModel, backend, edited, spinVars, confVars>>

RunGenerateCommitMessage ==
    /\ pc = "run_generate"
    /\ \E httpOk \in BOOLEAN, content \in Replies :
         LET r == GenerateCommitMessage(httpOk, content)
         IN  /\ backend' = IF httpOk THEN "replied" ELSE "failed"
             /\ response' = IF httpOk THEN content ELSE response
             /\ Proceed(r.err = Nil, "generate", "run_extract")
    /\ UNCHANGED <<nread, message, again, scanVars, repoVars, seqVars, models,
                   cfgModel, selectedModel, edited, spinVars, confVars>>

\* prompt.ExtractCommitMessage and the test for an empty subject
RunExtractCommitMessage ==
    /\ pc = "run_extract"
    /\ LET m == ExtractCommitMessage(response)
       IN  /\ message' = m
           /\ events' = Append(events, "extract")
           /\ IF TrimSpace(m) = <<>>
              THEN pc' = "run_edit" /\ UNCHANGED <<subject, spc>>
              ELSE pc' = "run_commit" /\ subject' = m /\ spc' = "called"
    /\ UNCHANGED <<nread, response, again, scanVars, repoVars, calls, remotes,
                   ret, models, cfgModel, selectedModel, backend, edited,
                   exitCode, spinVars, confVars>>

\* ui.EditCommitMessage("") and the test of what it returned
RunEditCommitMessage ==
    /\ pc = "run_edit"
    /\ \E key \in EditKeys, typed \in TypedTexts, uiOk \in BOOLEAN :
         LET r == EditCommitMessage(<<>>, key, typed, uiOk)
             ok == r.err = Nil /\ TrimSpace(r.msg) # <<>>
         IN  /\ edited' = key
             /\ message' = IF r.err = Nil THEN r.msg ELSE message
             /\ events' = Append(events, "edit")
             /\ IF ok
                THEN pc' = "run_commit" /\ subject' = r.msg /\ spc' = "called"
                     /\ exitCode' = exitCode
                ELSE Exit(1) /\ UNCHANGED <<subject, spc>>
    /\ UNCHANGED <<nread, response, again, scanVars, repoVars, calls, remotes,
                   ret, models, cfgModel, selectedModel, backend, spinVars, confVars>>

\* the return of git.StageAndCommitAndPush to run
RunFinish ==
    /\ pc = "run_commit"
    /\ spc = "returned"
    /\ events' = Append(events, "commit")
    /\ Exit(IF ret.err # Nil THEN 1 ELSE 0)
    /\ UNCHANGED <<nread, replyVars, scanVars, repoVars, seqVars, models,
                   cfgModel, selectedModel, backend, edited, spinVars, confVars>>

NextRun ==
    \/ RunGetChanges
    \/ RunGetDiffContent
    \/ RunLoadConfig
    \/ RunCheckConnection
    \/ RunListModels
    \/ RunSelectModel
    \/ RunGenerateCommitMessage
    \/ RunExtractCommitMessage
    \/ RunEditCommitMessage
    \/ StageAndCommitAndPush
    \/ RunFinish

SpecRun == InitRun /\ [][NextRun]_vars

---------------------------------------------------------------------------
(* internal/ui/spinner.go *)

\* ticks the ticker delivers while the spinner lives
MaxTicks == 4

\* steps of the call the spinner is shown for
MaxWork == 2

\* calls of Stop the owner of the spinner makes
MaxStops == 2

\* capacity of the channel `done`
DoneCapacity == 1

\* Stop returns without receiving from `done`
StopReturnsAtOnce(buffered) == TRUE

\* the receive `<-s.done` of Stop can proceed
StopMayReturn(buffered) == buffered > 0

\* NewSpinner has returned: the goroutine is at its select, the owner is in
\* the call the spinner is shown for
InitSpinner ==
    /\ pc = "spinner"
    /\ nread = 0
    /\ response = <<>>
    /\ message = <<>>
    /\ again = <<>>
    /\ output = <<>>
    /\ changes = NotParsed
    /\ IdleRepo
    /\ IdleSeq
    /\ IdleRun
    /\ sctx = FALSE
    /\ sdone = 0
    /\ gpc = "select"
    /\ mpc = "work"
    /\ ticks = 0
    /\ work = MaxWork
    /\ slog = <<>>
    /\ IdleConf

\* select takes the case <-ticker.C
SpinnerTick ==
    /\ gpc = "select"
    /\ ticks < MaxTicks
    /\ gpc' = "draw"
    /\ UNCHANGED <<pc, nread, replyVars, scanVars, repoVars, seqVars, runVars,
                   sctx, sdone, mpc, ticks, work, slog, confVars>>

\* the frame is written and i is incremented
SpinnerDraw ==
    /\ gpc = "draw"
    /\ slog' = Append(slog, "frame")
    /\ ticks' = ticks + 1
    /\ gpc' = "select"
    /\ UNCHANGED <<pc, nread, replyVars, scanVars, repoVars, seqVars, runVars,
                   sctx, sdone, mpc, work, confVars>>

\* select takes the case <-s.ctx.Done()
SpinnerCancelled ==
    /\ gpc = "select"
    /\ sctx
    /\ gpc' = "clear"
    /\ UNCHANGED <<pc, nread, replyVars, scanVars, repoVars, seqVars, runVars,
                   sctx, sdone, mpc, ticks, work, slog, confVars>>

\* the line is cleared
SpinnerClear ==
    /\ gpc = "clear"
    /\ slog' = Append(slog, "clear")
    /\ gpc' = "send"
    /\ UNCHANGED <<pc, nread, replyVars, scanVars, repoVars, seqVars, runVars,
                   sctx, sdone, mpc, ticks, work, confVars>>

\* s.done <- true, and the goroutine returns
SpinnerAcknowledge ==
    /\ gpc = "send"
    /\ sdone < DoneCapacity
    /\ sdone' = sdone + 1
    /\ slog' = Append(slog, "ack")
    /\ gpc' = "exited"
    /\ UNCHANGED <<pc, nread, replyVars, scanVars, repoVars, seqVars, runVars,
                   sctx, mpc, ticks, work, confVars>>

\* the owner takes a step of the call the spinner is shown for
OwnerWork ==
    /\ mpc = "work"
    /\ work > 0
    /\ work' = work - 1
    /\ UNCHANGED <<pc, nread, replyVars, scanVars, repoVars, seqVars, runVars,
                   sctx, sdone, gpc, mpc, ticks, slog, confVars>>

\* Stop: s.cancel()
StopCancel ==
    /\ \/ mpc = "work" /\ work = 0
       \/ mpc = "returned"
    /\ Cardinality({i \in 1..Len(slog) : slog[i] = "stop"}) < MaxStops
    /\ sctx' = TRUE
    /\ slog' = Append(slog, "stop")
    /\ mpc' = "wait"
    /\ UNCHANGED <<pc, nread, replyVars, scanVars, repoVars, seqVars, runVars,
                   sdone, gpc, ticks, work, confVars>>

\* Stop: <-s.done, and Stop returns
StopReceive ==
    /\ mpc = "wait"
    /\ StopMayReturn(sdone)
    /\ sdone' = IF sdone > 0 THEN sdone - 1 ELSE 0
    /\ slog' = Append(slog, "returned")
    /\ mpc' = "returned"
    /\ UNCHANGED <<pc, nread, replyVars, scanVars, repoVars, seqVars, runVars,
                   sctx, gpc, ticks, work, confVars>>

NextSpinner ==
    \/ SpinnerTick
    \/ SpinnerDraw
    \/ SpinnerCancelled
    \/ SpinnerClear
    \/ SpinnerAcknowledge
    \/ OwnerWork
    \/ StopCancel
    \/ StopReceive

SpecSpinner == InitSpinner /\ [][NextSpinner]_vars

\* the scheduler runs a goroutine that can take a step: the spinner goroutine
\* goes on from where it is, and a receive that can proceed does
SpecSpinnerFair ==
    /\ SpecSpinner
    /\ WF_vars(SpinnerDraw)
    /\ WF_vars(SpinnerCancelled)
    /\ WF_vars(SpinnerClear)
    /\ WF_vars(SpinnerAcknowledge)
    /\ WF_vars(StopReceive)

---------------------------------------------------------------------------
(* internal/config/config.go and the configuration commands of cmd/root.go *)

ProviderOllama == <<111, 108, 108, 97, 109, 97>>
ProviderSiliconFlow == <<115, 105, 108, 105, 99, 111, 110, 102, 108, 111, 119>>
ProviderOpenAI == <<111, 112, 101, 110, 97, 105>>

DefaultModel == "llama3.2"
DefaultProvider == ProviderSiliconFlow

\* the identifier is compared as it is written
newProviderExact(providerType) ==
    [ok |-> providerType \in {ProviderOllama, ProviderSiliconFlow, ProviderOpenAI},
     kind |-> providerType]

\* newProvider: whether a client is returned, and for which backend
newProvider(providerType) ==
    LET t == ToLower(TrimSpace(providerType))
    IN  [ok |-> t \in {ProviderOllama, ProviderSiliconFlow, ProviderOpenAI},
         kind |-> t]

\* LoadConfig on the file, when the home directory and the file can be read
\* (ioOk) or not; yaml keeps the three strings as they were stored
LoadConfig(file, ioOk) ==
    IF ~ioOk THEN [err |-> <<"failed to read config file">>, cfg |-> Absent]
    ELSE IF ~file.exists
    THEN [err |-> Nil,
          cfg |-> [exists |-> TRUE, Provider |-> DefaultProvider,
                   Endpoint |-> <<>>, Model |-> DefaultModel]]
    ELSE [err |-> Nil,
          cfg |-> [exists |-> TRUE,
                   Provider |-> IF file.Provider = <<>> THEN DefaultProvider
                                ELSE file.Provider,
                   Endpoint |-> file.Endpoint,
                   Model |-> IF file.Model = "" THEN DefaultModel ELSE file.Model]]

\* how os.WriteFile ends: the file is written, is left as it was, or is left
\* truncated
WriteOutcomes == {"ok", "failed", "truncated"}

SaveConfig(cfg, file, write) ==
    IF write = "ok" THEN [err |-> Nil, file |-> cfg]
    ELSE [err |-> <<"failed to write config file">>,
          file |-> IF write = "failed" THEN file
                   ELSE [exists |-> TRUE, Provider |-> <<>>, Endpoint |-> <<>>,
                         Model |-> ""]]

SetModel(model, file, ioOk, write) ==
    LET l == LoadConfig(file, ioOk)
    IN  IF l.err # Nil THEN [err |-> l.err, file |-> file]
        ELSE SaveConfig([l.cfg EXCEPT !.Model = model], file, write)

SetProvider(provider, file, ioOk, write) ==
    LET l == LoadConfig(file, ioOk)
    IN  IF l.err # Nil THEN [err |-> l.err, file |-> file]
        ELSE SaveConfig([l.cfg EXCEPT !.Provider = provider], file, write)

SetEndpoint(endpoint, file, ioOk, write) ==
    LET l == LoadConfig(file, ioOk)
    IN  IF l.err # Nil THEN [err |-> l.err, file |-> file]
        ELSE SaveConfig([l.cfg EXCEPT !.Endpoint = endpoint], file, write)

\* the exit status of a command and the file it leaves
Ended(err, file) == [exit |-> IF err # Nil THEN 1 ELSE 0, file |-> file]

\* config set-provider <arg>
setProviderCmd(arg, file, ioOk, write) ==
    LET providerType == ToLower(TrimSpace(arg))
        r == SetProvider(providerType, file, ioOk, write)
    IN  IF /\ providerType # ProviderOllama
           /\ providerType # ProviderSiliconFlow
           /\ providerType # ProviderOpenAI
        THEN Ended(<<"Invalid provider">>, file)
        ELSE Ended(r.err, r.file)

\* config set-endpoint <arg>
setEndpointCmd(arg, file, ioOk, write) ==
    LET r == SetEndpoint(TrimSpace(arg), file, ioOk, write)
    IN  Ended(r.err, r.file)

\* config set-model [arg]: `env` holds the outcomes of the first LoadConfig,
\* of CheckConnection and of ListModels, the models listed, and what the
\* operator does in the model list
setModelCmd(args, file, env, ioOk, write) ==
    LET l == LoadConfig(file, env.loadOk)
        picked == SelectModel(env.models, l.cfg.Model, env.key, env.cursor, env.uiOk)
        found == \E i \in 1..Len(env.models) : env.models[i] = args[1]
        save(model) == LET r == SetModel(model, file, ioOk, write)
                       IN  Ended(r.err, r.file)
    IN  IF l.err # Nil THEN Ended(l.err, file)
        ELSE IF ~newProvider(l.cfg.Provider).ok THEN Ended(<<"unknown provider type">>, file)
        ELSE IF ~env.connectOk THEN Ended(<<"connection failed">>, file)
        ELSE IF ~env.listOk \/ Len(env.models) = 0
        THEN IF Len(args) = 0 THEN Ended(<<"no model name">>, file)
             ELSE save(args[1])
        ELSE IF Len(args) = 1 /\ found THEN save(args[1])
        ELSE IF picked.err # Nil THEN Ended(picked.err, file)
        ELSE save(picked.name)

---------------------------------------------------------------------------
(* The configuration commands run one after another, from no file. *)

\* identifiers given to set-provider and newProvider: ollama, OLLAMA,
\* " OpenAI ", siliconflow, gpt, nothing, "open ai", siliconflow with a long s
ProviderArgs ==
    { ProviderOllama,
      <<79, 76, 76, 65, 77, 65>>,
      <<32, 79, 112, 101, 110, 65, 73, 32>>,
      ProviderSiliconFlow,
      <<103, 112, 116>>,
      <<>>,
      <<111, 112, 101, 110, 32, 97, 105>>,
      <<383, 105, 108, 105, 99, 111, 110, 102, 108, 111, 119>> }

\* endpoints given to set-endpoint: nothing, "h", " h"
EndpointArgs == { <<>>, <<104>>, <<32, 104>> }

\* arguments given to set-model: none, a served model, an unknown model
ModelArgs == { <<>>, <<"m1">>, <<"m3">> }

\* what the environment and the operator do during set-model; a choice that
\* is never looked at (the models when they are not listed, the cursor when
\* no item is chosen) has one value
ModelEnvs ==
    { e \in [loadOk : BOOLEAN, connectOk : BOOLEAN, listOk : BOOLEAN,
             models : ModelLists, key : {"enter", "q", "ctrl+c"},
             cursor : 1..MaxModels, uiOk : BOOLEAN] :
        /\ e.cursor <= IF e.models = <<>> THEN 1 ELSE Len(e.models)
        /\ e.key # "enter" => e.cursor = 1
        /\ ~(e.loadOk /\ e.connectOk /\ e.listOk) =>
               e.models = <<>> /\ e.key = "enter" /\ e.uiOk }

InitConfig ==
    /\ pc = "config"
    /\ nread = 0
    /\ response = <<>>
    /\ message = <<>>
    /\ again = <<>>
    /\ output = <<>>
    /\ changes = NotParsed
    /\ IdleRepo
    /\ IdleSeq
    /\ IdleRun
    /\ IdleSpin
    /\ IdleConf

\* the command ends with `r`
Command(name, arg, r) ==
    /\ pc = "config"
    /\ lastCmd' = [name |-> name, arg |-> arg, exit |-> r.exit, before |-> configFile]
    /\ configFile' = r.file
    /\ UNCHANGED <<pc, nread, replyVars, scanVars, repoVars, seqVars, runVars, spinVars>>

ConfigSetProvider ==
    \E arg \in ProviderArgs, ioOk \in BOOLEAN, write \in WriteOutcomes :
        Command("set-provider", arg, setProviderCmd(arg, configFile, ioOk, write))

ConfigSetEndpoint ==
    \E arg \in EndpointArgs, ioOk \in BOOLEAN, write \in WriteOutcomes :
        Command("set-endpoint", arg, setEndpointCmd(arg, configFile, ioOk, write))

ConfigSetModel ==
    \E args \in ModelArgs, env \in ModelEnvs, ioOk \in BOOLEAN, write \in WriteOutcomes :
        Command("set-model", <<>>, setModelCmd(args, configFile, env, ioOk, write))

\* newProvider called with an identifier
CallNewProvider ==
    \E arg \in ProviderArgs :
        Command("new-provider", arg,
                [exit |-> IF newProvider(arg).ok THEN 0 ELSE 1, file |-> configFile])

NextConfig ==
    \/ ConfigSetProvider
    \/ ConfigSetEndpoint
    \/ ConfigSetModel
    \/ CallNewProvider

SpecConfig == InitConfig /\ [][NextConfig]_vars

---------------------------------------------------------------------------
(* Vocabulary of the properties of the normalizer. *)

NoNewline(s) == \A i \in 1..Len(s) : s[i] # 10

IsTrimmed(s) == s = <<>> \/ (~IsSpace(s[1]) /\ ~IsSpace(s[Len(s)]))

AllSpace(s) == \A i \in 1..Len(s) : IsSpace(s[i])

IsLetter(c) == (c >= 97 /\ c <= 122) \/ (c >= 65 /\ c <= 90)

\* a description: non-empty text of one line that starts with a letter and
\* holds no backtick
IsDescription(d) ==
    /\ d # <<>>
    /\ IsLetter(d[1])
    /\ IsTrimmed(d)
    /\ \A i \in 1..Len(d) : d[i] \notin {10, 96}

\* the text between the parentheses of a scope
IsScopeText(t) ==
    /\ t # <<>>
    /\ \A i \in 1..Len(t) : ~IsSpace(t[i]) /\ t[i] \notin {40, 41, 58, 96}

\* the positions k at which a header "<type>: " or "<type>(<scope>): " of s ends
HeaderEnds(s) ==
    { k \in 1..Len(s) :
        \E v \in validCommitTypes :
            /\ HasPrefix(s, v)
            /\ k >= Len(v) + 2
            /\ s[k] = 32
            /\ s[k - 1] = 58
            /\ \/ k = Len(v) + 2
               \/ /\ k > Len(v) + 4
                  /\ s[Len(v) + 1] = 40
                  /\ s[k - 2] = 41
                  /\ IsScopeText(SubSeq(s, Len(v) + 2, k - 3)) }

BeginsTyped(s) == HeaderEnds(s) # {}

\* "t: d" or "t(s): d" with t a vocabulary word in lower case
WellFormedSubject(s) ==
    \E k \in HeaderEnds(s) : IsDescription(SubSeq(s, k + 1, Len(s)))

\* the emoji heuristic of the specification: one code point, or some
\* character outside ASCII
IsEmojiToken(t) == t # <<>> /\ (Len(t) = 1 \/ \E i \in 1..Len(t) : t[i] > 127)

\* the type token and type name of a message as the specification defines them
ClaimTypeToken(m) ==
    LET t == Fields(m)
    IN  IF Len(t) > 1 /\ IsEmojiToken(t[1]) THEN t[2] ELSE t[1]

ClaimTypeName(m) ==
    LET tok == ClaimTypeToken(m)
        delims == {i \in 1..Len(tok) : tok[i] \in {40, 58}}
    IN  IF delims = {} THEN tok ELSE SubSeq(tok, 1, SetMin(delims) - 1)

Unrecognised(m) == ~ \E v \in validCommitTypes : EqualFold(ClaimTypeName(m), v)

StartsReserved(m) ==
    \E w \in {w_chore, w_feat, w_fix} : HasPrefix(ToLower(m), w)

\* a reply that is already one bare candidate line
PlainLine(s) ==
    /\ s # <<>>
    /\ IsTrimmed(s)
    /\ NoNewline(s)
    /\ ~HasPrefix(ToLower(s), labelLower)
    /\ ~HasPrefix(s, fence)
    /\ ~HasSuffix(s, fence)

---------------------------------------------------------------------------
(* Properties of ExtractCommitMessage. *)

\* C1: normalizing a second time changes nothing:
\* ExtractCommitMessage(ExtractCommitMessage(x)) = ExtractCommitMessage(x).
C1_Idempotent == pc = "reextracted" => again = message

\* C2: a well-formed line "t: d" or "t(s): d" with a lower-case vocabulary
\* type is returned unchanged.
C2_WellFormedUnchanged ==
    (pc = "extracted" /\ WellFormedSubject(response)) => message = response

\* C3: when the type matches the vocabulary only up to letter case, only the
\* type name is rewritten to lower case; scope, colon and description stay.
C3_CaseRepairKeepsRest ==
    pc = "extracted" =>
        \A v \in validCommitTypes :
            (/\ Len(response) >= Len(v)
             /\ SubSeq(response, 1, Len(v)) # v
             /\ ToLower(SubSeq(response, 1, Len(v))) = v
             /\ WellFormedSubject(v \o SubSeq(response, Len(v) + 1, Len(response))))
            => message = v \o SubSeq(response, Len(v) + 1, Len(response))

\* C4: a candidate line whose type name is no vocabulary word in any casing
\* and which does not start with chore, feat or fix comes back as "chore: "
\* followed by the whole line.
C4_DefaultsToChore ==
    pc = "extracted" =>
        LET c == candidateLine(response)
        IN  /\ (/\ c.ok
                /\ Fields(c.line) # <<>>
                /\ Unrecognised(c.line)
                /\ ~StartsReserved(c.line))
               => message = chorePrefix \o c.line
            /\ (/\ PlainLine(response)
                /\ Unrecognised(response)
                /\ ~StartsReserved(response))
               => message = chorePrefix \o response

C4_Witness ==
    /\ pc = "extracted"
    /\ response = emoji \o SP \o wordUp \o Colon
    /\ message = chorePrefix \o response

\* C5: a fenced subject is returned bare, and a fence line with nothing
\* after it gives the empty result.
C5_FenceStripped ==
    pc = "extracted" =>
        /\ \A m \in {subjectFeat, subjectFixUi} :
               response = fence \o NL \o m \o NL \o fence => message = m
        /\ (HasPrefix(response, fence) /\ NoNewline(response)) => message = <<>>

\* C6: every non-empty result begins, after an optional leading emoji
\* token, with "<type>: " or "<type>(<scope>): " for a vocabulary type.
C6_ResultIsTyped ==
    (pc = "extracted" /\ message # <<>>) =>
        \/ BeginsTyped(message)
        \/ \E i \in 2..Len(message) :
               /\ message[i] = 32
               /\ IsEmojiToken(SubSeq(message, 1, i - 1))
               /\ \A j \in 1..(i - 1) : ~IsSpace(message[j])
               /\ BeginsTyped(SubSeq(message, i + 1, Len(message)))

\* C7: an empty or all-whitespace reply gives the empty string, and every
\* reply gives a string.
C7_BlankGivesEmpty ==
    pc = "extracted" =>
        /\ message \in Seq(Nat)
        /\ AllSpace(response) => message = <<>>

C7_Witness ==
    /\ pc = "extracted"
    /\ response = SP \o TAB \o NL
    /\ message = <<>>

---------------------------------------------------------------------------
(* Properties of parseDiffOutput. *)

\* largest count of the classification table
MaxCount == 3

\* the classification the data model prescribes
Classified(additions, deletions) ==
    IF deletions = 0 /\ additions > 0 THEN "add"
    ELSE IF additions = 0 /\ deletions > 0 THEN "del"
    ELSE "edit"

\* the non-blank lines of the output
RECURSIVE NonBlank(_)
NonBlank(lines) ==
    IF lines = <<>> THEN <<>>
    ELSE (IF AllSpace(Head(lines)) THEN <<>> ELSE <<Head(lines)>>) \o NonBlank(Tail(lines))

StatLines == NonBlank(SplitLines(output))

HasNoDigit(tok) == \A i \in 1..Len(tok) : ~IsDigit(tok[i])

\* C8: every pair of non-negative counts is classified Added, Deleted or
\* Modified by the table of the data model, and every FileChange parsed
\* carries the classification of its own counts, never Renamed.
C8_ClassifiedByCounts ==
    /\ \A a, d \in 0..MaxCount : determineChangeType(a, d) = Classified(a, d)
    /\ (pc = "parsed" /\ ~changes.panicked) =>
           \A i \in 1..Len(changes.list) :
               /\ changes.list[i].Type =
                      Classified(changes.list[i].Additions, changes.list[i].Deletions)
               /\ changes.list[i].Type # ChangeTypeRenamed

C8_Witness ==
    /\ pc = "parsed"
    /\ output = count3 \o count3 \o pathA
    /\ Len(changes.list) = 1
    /\ changes.list[1].Type = "edit"
    /\ changes.list[1].Additions = 3
    /\ changes.list[1].Deletions = 3

\* C9: a line "<additions> <deletions> <path>" whose path holds embedded
\* whitespace parses to exactly that path and those counts.
C9_PathPreserved ==
    (/\ pc = "parsed"
     /\ Len(output) > 4
     /\ IsDigit(output[1]) /\ output[2] = 9
     /\ IsDigit(output[3]) /\ output[4] = 9
     /\ LET path == SubSeq(output, 5, Len(output))
        IN  /\ IsTrimmed(path)
            /\ Contains(path, SP)
            /\ \A i \in 1..Len(path) : path[i] = 32 \/ IsLetter(path[i]))
    => /\ ~changes.panicked
       /\ Len(changes.list) = 1
       /\ changes.list[1].Path = SubSeq(output, 5, Len(output))
       /\ changes.list[1].Additions = output[1] - 48
       /\ changes.list[1].Deletions = output[3] - 48

\* C10: on output made of diff-stat lines, a count field without any digit
\* (the "-" of a binary file) does not abort the parse: every line gives a
\* FileChange, that field is zero, and no error is returned.
C10_BadCountIsZero ==
    (/\ pc = "parsed"
     /\ \A i \in 1..Len(StatLines) : Len(Fields(StatLines[i])) >= 3)
    => /\ ~changes.panicked
       /\ changes.err = "nil"
       /\ Len(changes.list) = Len(StatLines)
       /\ \A i \in 1..Len(StatLines) :
              /\ HasNoDigit(Fields(StatLines[i])[1]) => changes.list[i].Additions = 0
              /\ HasNoDigit(Fields(StatLines[i])[2]) => changes.list[i].Deletions = 0

C10_Witness ==
    /\ pc = "parsed"
    /\ output = countBinary \o countBinary \o pathA
    /\ ~changes.panicked
    /\ Len(changes.list) = 1
    /\ changes.list[1].Additions = 0
    /\ changes.list[1].Deletions = 0
    /\ changes.list[1].Path = pathA

---------------------------------------------------------------------------
(* Properties of GetChanges. *)

\* C11: GetChanges never returns a Changes value with Staged and Unstaged
\* both empty; when both comparisons yield no entry it returns the error
\* "no uncommitted changes found" and no Changes.
C11_NeverEmptyChanges ==
    pc = "scanned" =>
        /\ ~scan.changes.isNil =>
               (scan.changes.Staged # <<>> \/ scan.changes.Unstaged # <<>>)
        /\ (/\ scan.err \notin {ErrGetwd, ErrCheckRepo, ErrNotARepo, ErrStaged, ErrUnstaged}
            /\ ~scan.panicked
            /\ NonBlank(SplitLines(stagedOutput)) = <<>>
            /\ NonBlank(SplitLines(unstagedOutput)) = <<>>)
           => (scan.err = ErrNoChanges /\ scan.changes.isNil)

C11_Witness ==
    /\ pc = "scanned"
    /\ stagedOutput = <<>>
    /\ unstagedOutput = NL
    /\ scan.err = ErrNoChanges
    /\ scan.changes.isNil

\* C12: GetChanges reports "not a git repository" only when no directory
\* from the current one up to the root holds a .git directory.
C12_NotARepoOnlyOutsideWorkTree ==
    (pc = "scanned" /\ scan.err = ErrNotARepo) =>
        \A i \in 1..(cwd + 1) : dotGit[i] # "dir"

---------------------------------------------------------------------------
(* Properties of StageAndCommitAndPush. *)

CmdsOf(log) == [i \in 1..Len(log) |-> log[i].cmd]

IsPrefixOf(a, b) == Len(a) <= Len(b) /\ SubSeq(b, 1, Len(a)) = a

\* the git command was executed
Ran(cmd) == \E i \in 1..Len(calls) : calls[i].cmd = cmd

\* the git command was executed and exited successfully
Succeeded(cmd) == \E i \in 1..Len(calls) : calls[i] = Call(cmd, TRUE)

\* the repository has a remote named exactly origin
HasOrigin == \E i \in 1..Len(remotes) : remotes[i] = w_origin

HasMarker(err) == \E i \in 1..Len(err) : err[i] = ErrPushFailed

\* C13: the git commands of StageAndCommitAndPush run in the order add,
\* commit, remote lookup, push, each only after the one before it succeeded:
\* when staging did not succeed neither commit nor push is run, and when the
\* commit did not succeed neither the remote lookup nor push is run.
C13_StageCommitPushInOrder ==
    spc = "returned" =>
        /\ IsPrefixOf(CmdsOf(calls), <<"add", "commit", "remote", "push">>)
        /\ \A i \in 1..(Len(calls) - 1) : calls[i].ok
        /\ (~Succeeded("add") => ~Ran("commit") /\ ~Ran("remote") /\ ~Ran("push"))
        /\ (~Succeeded("commit") => ~Ran("remote") /\ ~Ran("push"))

\* staging succeeded, git commit failed, and nothing was run after it
C13_Witness ==
    /\ spc = "returned"
    /\ calls = <<Call("add", TRUE), Call("commit", FALSE)>>
    /\ ret.err = Wrap(ErrCreateCommit, ExitError)

\* C14 as stated: after a successful commit, push is run only if a remote is
\* named exactly origin, pushed is true exactly when push ran and succeeded,
\* and (false, nil) is returned when no remote is named origin.
C14_PushOnlyToOrigin ==
    spc = "returned" /\ Succeeded("commit") =>
        /\ (Ran("push") => HasOrigin)
        /\ (ret.pushed <=> Succeeded("push"))
        /\ (~HasOrigin => ret = [pushed |-> FALSE, err |-> Nil])

\* C14 amended: after a successful commit, push is run only if a remote is
\* named exactly origin, pushed is true exactly when push ran and succeeded,
\* and (false, nil) is returned when the remotes were listed and none is
\* named origin; when listing the remotes fails the failure is returned.
C14_PushOnlyToListedOrigin ==
    spc = "returned" /\ Succeeded("commit") =>
        /\ (Ran("push") => HasOrigin)
        /\ (ret.pushed <=> Succeeded("push"))
        /\ (~HasOrigin /\ Succeeded("remote") => ret = [pushed |-> FALSE, err |-> Nil])
        /\ (~Succeeded("remote") => ~ret.pushed /\ ret.err # Nil)

\* the commit was made in a repository whose remotes resemble origin but none
\* is origin: the remotes were listed, push was not run
C14_Witness ==
    /\ spc = "returned"
    /\ Succeeded("commit")
    /\ Succeeded("remote")
    /\ remotes = <<w_origin2, w_Origin>>
    /\ ~Ran("push")
    /\ ret = [pushed |-> FALSE, err |-> Nil]

\* C15: a subject that is empty after trimming is refused: the empty-subject
\* error is returned, git commit is not run and git push is not run.
C15_EmptySubjectRefused ==
    spc = "returned" /\ TrimSpace(subject) = <<>> =>
        /\ ret = [pushed |-> FALSE, err |-> <<ErrEmptyMessage>>]
        /\ ~Ran("commit")
        /\ ~Ran("push")

\* C16: a returned error carries the marker "commit successful but push
\* failed" exactly when git commit succeeded before the failure.
C16_MarkerIffCommitSucceeded ==
    spc = "returned" /\ ret.err # Nil =>
        (HasMarker(ret.err) <=> Succeeded("commit"))

\* the commit was made and git push failed: the error carries the marker
C16_Witness ==
    /\ spc = "returned"
    /\ Succeeded("commit")
    /\ calls[Len(calls)] = Call("push", FALSE)
    /\ ret.err = <<ErrPushFailed, ErrPush>> \o ExitError

---------------------------------------------------------------------------
(* Properties of the default action. *)

\* the step is among the steps run has taken
Happened(step) == \E i \in 1..Len(events) : events[i] = step

\* C17: when the backend returns an empty reply the invocation does not end
\* before the manual subject entry: it ends only after the subject editor
\* has been shown.
C17_EmptyReplyGoesToManualEntry ==
    backend = "replied" /\ response = <<>> /\ pc = "exited" => Happened("edit")

\* C19: when the operator leaves the subject editor with Esc or Ctrl+C the
\* invocation ends with a failure status, and no git add, git commit or git
\* push has been run.
C19_AbortFailsWithoutCommit ==
    edited \in {"esc", "ctrl+c"} =>
        /\ pc = "exited"
        /\ exitCode = 1
        /\ spc = "idle"
        /\ calls = <<>>

\* the backend replied a blank, the subject editor was shown and the
\* operator pressed Esc
C19_Witness ==
    /\ backend = "replied"
    /\ response = SP
    /\ Happened("edit")
    /\ edited = "esc"
    /\ pc = "exited"
    /\ exitCode = 1

---------------------------------------------------------------------------
(* Properties of the spinner. *)

\* the spinner goroutine wrote to the terminal
IsWrite(e) == e \in {"frame", "clear"}

\* C18: Stop returns only after the goroutine acknowledged the cancellation:
\* in every interleaving the goroutine writes nothing to the terminal after
\* a return of Stop, every return of Stop follows the acknowledgment, and the
\* acknowledgment follows the write that clears the line.
C18_StopWaitsForAcknowledgment ==
    \A j \in 1..Len(slog) :
        /\ IsWrite(slog[j]) => \A i \in 1..(j - 1) : slog[i] # "returned"
        /\ slog[j] = "returned" => \E i \in 1..(j - 1) : slog[i] = "ack"
        /\ slog[j] = "ack" => \E i \in 1..(j - 1) : slog[i] = "clear"

\* a tick was drawn after Stop had cancelled the context, then the line was
\* cleared, the cancellation acknowledged, and Stop returned
C18_Witness ==
    /\ mpc = "returned"
    /\ Len(slog) >= 5
    /\ \E i \in 1..Len(slog) : slog[i] = "stop" /\ slog[i + 1] = "frame"
    /\ SubSeq(slog, Len(slog) - 2, Len(slog)) = <<"clear", "ack", "returned">>

---------------------------------------------------------------------------
(* Properties of the length of the subject. *)

\* C20: the subject ExtractCommitMessage produces from a reply is a single
\* line, without a newline, of fewer than 72 characters.
C20_SingleLineUnderLimit ==
    pc \in {"extracted", "reextracted"} =>
        /\ NoNewline(message)
        /\ Len(message) < SubjectLimit

---------------------------------------------------------------------------
(* Properties of the label prefix. *)

\* the reply begins, after trimming, with "commit message:" in some casing
BeginsWithLabel(s) == HasPrefix(ToLower(TrimSpace(s)), labelLower)

\* the same reply with its label written in lower case
WithLowerLabel(s) ==
    labelLower \o SubSeq(TrimSpace(s), Len(labelLower) + 1, Len(TrimSpace(s)))

\* C21: a leading label "commit message:" is stripped whatever its letter
\* casing: a reply that begins with the label in any casing gives the subject
\* the same reply gives with the label in lower case.
C21_LabelStrippedInAnyCasing ==
    pc = "extracted" /\ BeginsWithLabel(response) =>
        message = ExtractCommitMessage(WithLowerLabel(response))

---------------------------------------------------------------------------
(* Properties of messages that begin with a reserved word. *)

\* the message begins with the word in some casing
StartsWithAnyCase(m, w) ==
    Len(m) >= Len(w) /\ EqualFold(SubSeq(m, 1, Len(w)), w)

\* the extracted type name of the message is no vocabulary word, and the
\* message begins with chore, feat or fix in some casing
MalformedReserved(m) ==
    /\ Fields(m) # <<>>
    /\ ToLower(ClaimTypeName(m)) \notin validCommitTypes
    /\ \E w \in {w_chore, w_feat, w_fix} : StartsWithAnyCase(m, w)

\* C22 as stated: a candidate line whose extracted type name is not in the
\* vocabulary and which begins with chore, feat or fix in some casing is
\* returned unmodified.
C22_ReservedStartUnmodified ==
    pc = "extracted" =>
        LET c == candidateLine(response)
        IN  c.ok /\ MalformedReserved(c.line) => message = c.line

\* C22 amended: a candidate line whose extracted type name is not in the
\* vocabulary, does not equal a vocabulary word under Unicode case folding
\* either, and which begins with chore, feat or fix in some casing is
\* returned unmodified.
C22_ReservedStartUnfoldedUnmodified ==
    pc = "extracted" =>
        LET c == candidateLine(response)
        IN  c.ok /\ MalformedReserved(c.line) /\ Unrecognised(c.line)
                => message = c.line

\* "FIXup up" is returned as it is
C22_Witness ==
    /\ pc = "extracted"
    /\ response = u_FIX \o wordUp \o SP \o wordUp
    /\ MalformedReserved(response)
    /\ message = response

---------------------------------------------------------------------------
(* Properties of the order of the steps of the default action. *)

\* the place of a step in the order of run
StepRank(step) ==
    CASE step = "scan" -> 1
      [] step = "diff" -> 2
      [] step = "config" -> 3
      [] step = "connect" -> 4
      [] step \in {"list", "list_failed"} -> 5
      [] step = "select" -> 6
      [] step = "generate" -> 7
      [] step = "extract" -> 8
      [] step = "edit" -> 9
      [] step = "commit" -> 10

\* the scan returned a set of changes that is not empty
ScanFoundChanges ==
    /\ ~scan.panicked
    /\ scan.err = "nil"
    /\ ~scan.changes.isNil
    /\ Len(scan.changes.Staged) + Len(scan.changes.Unstaged) > 0

\* C23: the steps of the default action occur in the fixed order scan, diff,
\* config, connect, list, select, generate, extract, edit, commit, each at
\* most once, and no step is taken after one has failed; the generation is
\* called only after the scan returned a non-empty set of changes and the
\* connection check was passed; git add, git commit and git push do not
\* start before the reply has been normalized.
C23_StepsInFixedOrder ==
    /\ \A i, j \in 1..Len(events) : i < j => StepRank(events[i]) < StepRank(events[j])
    /\ pc # "exited" => exitCode = 0
    /\ Happened("generate") => ScanFoundChanges /\ Happened("connect")
    /\ (spc # "idle" \/ calls # <<>>) => Happened("extract")
    /\ Happened("commit") => Happened("generate")

\* a run that went through every step to a pushed commit
C23_Witness ==
    /\ pc = "exited"
    /\ exitCode = 0
    /\ ret.pushed
    /\ events = <<"scan", "diff", "config", "connect", "list", "select",
                  "generate", "extract", "edit", "commit">>

\* C24: a failure to list the models ends the invocation: after ListModels
\* returned an error no commit message is generated and no git add, git
\* commit or git push is run.
C24_ListFailureIsTerminal ==
    Happened("list_failed") =>
        /\ ~Happened("generate")
        /\ spc = "idle"
        /\ calls = <<>>

---------------------------------------------------------------------------
(* Properties of the provider selection. *)

\* the identifier names a supported provider once trimmed and lower-cased
Supported(id) ==
    \E w \in {ProviderOllama, ProviderSiliconFlow, ProviderOpenAI} :
        ToLower(TrimSpace(id)) = w

\* C25: newProvider returns an error exactly for the identifiers that are,
\* trimmed and lower-cased, none of ollama, siliconflow, openai; from an
\* absent configuration file, after any sequence of set-provider, set-model
\* and set-endpoint commands, the provider read from the file is one that
\* newProvider accepts, and a set-provider with a rejected identifier fails
\* and leaves the file as it was.
C25_ProviderAlwaysAccepted ==
    /\ \A id \in ProviderArgs : newProvider(id).ok <=> Supported(id)
    /\ lastCmd.name = "new-provider" => (lastCmd.exit = 0 <=> Supported(lastCmd.arg))
    /\ newProvider(LoadConfig(configFile, TRUE).cfg.Provider).ok
    /\ configFile.Provider \in {<<>>, ProviderOllama, ProviderSiliconFlow, ProviderOpenAI}
    /\ lastCmd.name = "set-provider" /\ ~Supported(lastCmd.arg) =>
           lastCmd.exit = 1 /\ configFile = lastCmd.before

\* " OpenAI " was given to set-provider after other commands had written the
\* file: openai is stored
C25_Witness ==
    /\ lastCmd.name = "set-provider"
    /\ lastCmd.arg = <<32, 79, 112, 101, 110, 65, 73, 32>>
    /\ lastCmd.exit = 0
    /\ lastCmd.before.exists
    /\ lastCmd.before.Provider = ProviderOllama
    /\ configFile.Provider = ProviderOpenAI
    /\ configFile.Model = "m1"

---------------------------------------------------------------------------
(* Totality of parseDiffOutput. *)

\* C26: parseDiffOutput is total: for every output text, a line of exactly
\* two tokens included, it returns a list of FileChange values and does not
\* crash.
C26_ParseIsTotal ==
    pc = "parsed" => ~changes.panicked /\ changes.err = "nil"

---------------------------------------------------------------------------
(* The repository and an empty subject. *)

\* C27: when the subject is empty after trimming the repository is left
\* untouched: no git command is run, git add -A included, before the
\* empty-subject error is returned.
C27_EmptySubjectLeavesRepositoryUntouched ==
    spc = "returned" /\ TrimSpace(subject) = <<>> =>
        /\ ~Ran("add")
        /\ calls = <<>>

---------------------------------------------------------------------------
(* The model name handed to the generation. *)

\* the model is one of those ListModels returned
IsListed(name) == \E i \in 1..Len(models) : models[i] = name

\* C28: whenever ListModels succeeded with a list that is not empty, the
\* model name passed to GenerateCommitMessage is a member of the list,
\* whatever the operator does in the model list; the configured model is
\* passed unchecked only when listing failed or returned no model.
C28_GeneratesWithListedModel ==
    Happened("generate") =>
        /\ Happened("list") /\ models # <<>> => IsListed(selectedModel)
        /\ ~IsListed(selectedModel) =>
               /\ Happened("list_failed") \/ models = <<>>
               /\ selectedModel = cfgModel

\* the configured model m3 is not served, the model list was shown, and the
\* generation was called with a served model
C28_Witness ==
    /\ Happened("select")
    /\ Happened("generate")
    /\ cfgModel = "m3"
    /\ models = <<"m2", "m1">>
    /\ selectedModel = "m2"

---------------------------------------------------------------------------
(* Fence markers in the subject. *)

\* C29: no result of ExtractCommitMessage that is not empty contains the
\* fence marker of three backticks, whatever the reply.
C29_NoFenceInSubject ==
    pc = "extracted" /\ message # <<>> => ~Contains(message, fence)

---------------------------------------------------------------------------
(* Termination of the spinner. *)

\* C30: every call of Stop eventually returns, a second call on the same
\* spinner included, and the spinner goroutine terminates once the
\* cancellation has been signalled.
C30_EveryStopReturns ==
    /\ (mpc = "wait") ~> (mpc = "returned")
    /\ sctx ~> (gpc = "exited")

====
